---------------------------- MODULE Spec2Model ----------------------------
(***************************************************************************)
(* Ingredient ledger of the Precious Place bot: the dispatcher of          *)
(* bot/ingredients_handler.py, the ledger service of                       *)
(* services/ingredients.py and the sheet primitives of sheets/queries.py.  *)
(*                                                                         *)
(* Numbers.  The sheet stores quantities and costs as text with four       *)
(* decimals (f"{x:.4f}"), so a stored number is an integer count of        *)
(* ten-thousandths ("ticks").  Numbers typed by the user are whole units.  *)
(* Intermediate floats are rationals [n |-> numerator, d |-> denominator]. *)
(*                                                                         *)
(* Coroutines.  Every primitive of sheets/queries.py is "async def".  A    *)
(* call that is awaited runs the primitive.  A call that is not awaited    *)
(* only builds a coroutine object: the primitive's body never runs, and    *)
(* the object is truthy where the caller tests it.                         *)
(***************************************************************************)
EXTENDS Integers, Sequences, FiniteSets, TLC

VARIABLES ingredients,    \* rows of the "Ingredients" sheet, in sheet order
          units,          \* rows of the "Units" sheet
          price_history,  \* rows of the "Price_History" sheet
          next_ing_id,    \* number held by the Config row NEXT_ING_ID
          last,           \* what the dispatcher did with the last message
          conversation,   \* ConversationHandler state and user_data of the chat
          calls           \* service coroutines in flight: position and locals

vars == <<ingredients, units, price_history, next_ing_id, last, conversation, calls>>

-----------------------------------------------------------------------------
(* Bounds of the model *)

MaxQuantity == 2      \* user quantities are 0..MaxQuantity whole units
MaxRules == 2         \* rows of a Units sheet drawn for the resolver
MaxAllocations == 3   \* calls of the id allocator in one behaviour
MaxStart == 3         \* largest counter value a behaviour of the allocator starts from
MaxPurchases == 2     \* purchases in flight in one behaviour
MaxCost == 6          \* the highest price a user states, in whole euros

-----------------------------------------------------------------------------
(* Numbers *)

Scale == 10000        \* ticks per unit: four decimals

None == "None"

Rat(n, d) == [n |-> n, d |-> d]

\* f"{x:.4f}" for x = n/d (d > 0), read back by float(): the nearest tick
Fmt4(n, d) ==
    IF n >= 0 THEN (2 * n * Scale + d) \div (2 * d)
              ELSE 0 - ((2 * (0 - n) * Scale + d) \div (2 * d))

\* a / b > t / Scale for a rational a/b with b > 0 and a stored number t
RatGreaterThanTicks(a, b, t) == a * Scale > t * b

-----------------------------------------------------------------------------
(* Text *)

\* str.strip().lower() on the tokens of the model
Lower(s) ==
    CASE s = "Flour" -> "flour"
      [] s = "FLOUR" -> "flour"
      [] s = "Sugar" -> "sugar"
      [] s = "Salt" -> "salt"
      [] s = "Kg" -> "kg"
      [] s = " kg " -> "kg"
      [] s = "G" -> "g"
      [] OTHER -> s


-----------------------------------------------------------------------------
(* Coroutines *)

\* "x = f(...)" on an async def f without await: the body of f never runs, so
\* the store stays as it was before the call (the coroutine object is truthy)
NeverAwaited(before, after) == before

\* a local of the code: the value is computed once and then named in F
With(value, F(_)) == CHOOSE result \in {F(v) : v \in {value}} : TRUE

-----------------------------------------------------------------------------
(* sheets/queries.py *)

NoRecord == [ID |-> "", Name |-> "", Unit |-> "", Quantity |-> 0, CostPerUnit |-> 0]

\* index of the first row satisfying P, 0 when there is none
RECURSIVE ScanFrom(_, _, _)
ScanFrom(rows, P(_), i) ==
    IF i > Len(rows) THEN 0
    ELSE IF P(rows[i]) THEN i
    ELSE ScanFrom(rows, P, i + 1)

FirstIndex(rows, P(_)) == ScanFrom(rows, P, 1)

\* get_all_records returns "records if records else None": an empty sheet
\* reads as None, like a failed read
get_all_records(rows) == [none |-> rows = <<>>, records |-> rows]

\* an update that rewrites the whole row from data and blanks the unit
update_row_by_id_blanking_unit(rows, row_id, data, io_ok) ==
    With(FirstIndex(rows, LAMBDA r : r.ID = row_id), LAMBDA i :
      IF ~io_ok \/ i = 0
      THEN [rows |-> rows, success |-> FALSE]
      ELSE [rows |-> [rows EXCEPT ![i] =
                          [f \in DOMAIN rows[i] |->
                              IF f \in DOMAIN data THEN data[f]
                              ELSE IF f = "Unit" THEN "" ELSE rows[i][f]]],
            success |-> TRUE])

\* awaited update_row_by_id: the first row holding row_id gets the fields of
\* data; an API error or a missing row gives False
update_row_by_id(rows, row_id, data, io_ok) ==
    With(FirstIndex(rows, LAMBDA r : r.ID = row_id), LAMBDA i :
      IF ~io_ok \/ i = 0
      THEN [rows |-> rows, success |-> FALSE]
      ELSE [rows |-> [rows EXCEPT ![i] =
                          [f \in DOMAIN rows[i] |->
                              IF f \in DOMAIN data THEN data[f] ELSE rows[i][f]]],
            success |-> TRUE])

\* awaited append_row: one row more at the end of the sheet
append_row(rows, data, io_ok) ==
    IF io_ok THEN [rows |-> Append(rows, data), success |-> TRUE]
             ELSE [rows |-> rows, success |-> FALSE]

\* awaited get_next_unique_id: returns the current value, stores the next
get_next_unique_id(counter, io_ok) ==
    IF io_ok THEN [counter |-> counter + 1, id |-> counter, ok |-> TRUE]
             ELSE [counter |-> counter, id |-> 0, ok |-> FALSE]

-----------------------------------------------------------------------------
(* services/ingredients.py: lookups and conversion *)

NotANumber == 0 - 1     \* a Conversion_Rate cell that float() rejects

\* a reverse scan that hands back the stored rate without inverting it
reverse_rate_not_inverted(rules, from_unit_clean, to_unit_clean) ==
    With(FirstIndex(rules, LAMBDA r : /\ Lower(r.From_Unit) = to_unit_clean
                                      /\ Lower(r.To_Unit) = from_unit_clean
                                      /\ r.Conversion_Rate # NotANumber
                                      /\ r.Conversion_Rate # 0),
         LAMBDA j :
           IF j # 0
           THEN [raised |-> FALSE, found |-> TRUE, rate |-> Rat(rules[j].Conversion_Rate, 1)]
           ELSE [raised |-> FALSE, found |-> FALSE, rate |-> Rat(0, 1)])

\* the reverse scan of get_conversion_rate: the first reverse rule with a
\* valid, non-zero rate, inverted
reverse_rate(rules, from_unit_clean, to_unit_clean) ==
    With(FirstIndex(rules, LAMBDA r : /\ Lower(r.From_Unit) = to_unit_clean
                                      /\ Lower(r.To_Unit) = from_unit_clean
                                      /\ r.Conversion_Rate # NotANumber
                                      /\ r.Conversion_Rate # 0),
         LAMBDA j :
           IF j # 0
           THEN [raised |-> FALSE, found |-> TRUE, rate |-> Rat(1, rules[j].Conversion_Rate)]
           ELSE [raised |-> FALSE, found |-> FALSE, rate |-> Rat(0, 1)])

\* a resolver that goes to the table before comparing the two tokens
get_conversion_rate_table_first(rules, from_unit, to_unit) ==
    IF get_all_records(rules).none
    THEN [raised |-> TRUE, found |-> FALSE, rate |-> Rat(0, 1)]
    ELSE With(FirstIndex(rules, LAMBDA r : /\ Lower(r.From_Unit) = Lower(from_unit)
                                           /\ Lower(r.To_Unit) = Lower(to_unit)
                                           /\ r.Conversion_Rate # NotANumber),
              LAMBDA i :
                IF i # 0
                THEN [raised |-> FALSE, found |-> TRUE,
                      rate |-> Rat(rules[i].Conversion_Rate, 1)]
                ELSE IF Lower(from_unit) = Lower(to_unit)
                THEN [raised |-> FALSE, found |-> TRUE, rate |-> Rat(1, 1)]
                ELSE reverse_rate(rules, Lower(from_unit), Lower(to_unit)))

get_conversion_rate(rules, from_unit, to_unit) ==
    IF Lower(from_unit) = Lower(to_unit)
    THEN [raised |-> FALSE, found |-> TRUE, rate |-> Rat(1, 1)]
    ELSE IF get_all_records(rules).none
    THEN [raised |-> TRUE, found |-> FALSE, rate |-> Rat(0, 1)]  \* for rule in None
    ELSE With(FirstIndex(rules, LAMBDA r : /\ Lower(r.From_Unit) = Lower(from_unit)
                                           /\ Lower(r.To_Unit) = Lower(to_unit)
                                           /\ r.Conversion_Rate # NotANumber),
              LAMBDA i :
                IF i # 0
                THEN [raised |-> FALSE, found |-> TRUE,
                      rate |-> Rat(rules[i].Conversion_Rate, 1)]
                ELSE reverse_rate(rules, Lower(from_unit), Lower(to_unit)))

_find_ingredient_by_name(rows, name) ==
    IF get_all_records(rows).none
    THEN [raised |-> TRUE, found |-> FALSE, record |-> NoRecord]  \* for record in None
    ELSE With(FirstIndex(rows, LAMBDA r : Lower(r.Name) = Lower(name)), LAMBDA i :
           IF i # 0
           THEN [raised |-> FALSE, found |-> TRUE, record |-> rows[i]]
           ELSE [raised |-> FALSE, found |-> FALSE, record |-> NoRecord])

\* the converted quantity as a rational, or None (ok = FALSE); an exception of
\* get_conversion_rate is caught here
calculate_converted_quantity(rules, input_quantity, input_unit, target_unit) ==
    IF Lower(input_unit) = Lower(target_unit)
    THEN [ok |-> TRUE, n |-> input_quantity, d |-> 1]
    ELSE With(get_conversion_rate(rules, input_unit, target_unit), LAMBDA rate :
           IF rate.raised \/ ~rate.found
           THEN [ok |-> FALSE, n |-> 0, d |-> 1]
           ELSE [ok |-> TRUE, n |-> input_quantity * rate.rate.n, d |-> rate.rate.d])

\* an audit writer whose append is carried out
log_price_history_appending(history, ingredient_id, old_cost_per_unit, new_cost_per_unit) ==
    LET log_data == [ingredients_Id |-> ingredient_id,
                     old_cost_per_unit |-> old_cost_per_unit,
                     new_cost_per_unit |-> new_cost_per_unit]
    IN  [rows |-> append_row(history, log_data, TRUE).rows, success |-> TRUE]

\* log_price_history: append_row is called without await, so no row is
\* appended and the truthy coroutine makes the function return True
log_price_history(history, ingredient_id, old_cost_per_unit, new_cost_per_unit) ==
    LET log_data == [ingredients_Id |-> ingredient_id,
                     old_cost_per_unit |-> old_cost_per_unit,
                     new_cost_per_unit |-> new_cost_per_unit]
    IN  [rows |-> NeverAwaited(history, append_row(history, log_data, TRUE).rows),
         success |-> TRUE]

-----------------------------------------------------------------------------
(* services/ingredients.py: ledger operations.  Each returns the sheets as  *)
(* it leaves them, the exception it lets escape ("" for none) and its       *)
(* return value (success, status).                                          *)

Outcome(rows, history, counter, raised, success, status) ==
    [rows |-> rows, history |-> history, counter |-> counter,
     raised |-> raised, success |-> success, status |-> status]

\* add_new_ingredient: get_next_unique_id and append_row are both called
\* without await, so neither the counter nor the sheet changes and the value
\* returned as the new id is the coroutine object of get_next_unique_id
add_new_ingredient(rows, counter, name, stock, unit, cost_n, cost_d) ==
    LET new_ingredient_data == [ID |-> "<coroutine object get_next_unique_id>",
                                Name |-> name,
                                Quantity |-> Fmt4(stock, 1),
                                Unit |-> unit,
                                CostPerUnit |-> Fmt4(cost_n, cost_d)]
    IN  [counter |-> NeverAwaited(counter, get_next_unique_id(counter, TRUE).counter),
         rows |-> NeverAwaited(rows, append_row(rows, new_ingredient_data, TRUE).rows),
         new_id |-> "<coroutine object get_next_unique_id>"]

\* a purchase whose update is awaited and always carries the cost of the batch
purchase_commit_overwriting(rows, history, ingredient_id, current_unit_cost, new_quantity, cost_n, cost_d) ==
    [rows |-> update_row_by_id(rows, ingredient_id,
                               [Quantity |-> new_quantity,
                                CostPerUnit |-> Fmt4(cost_n, cost_d)], TRUE).rows,
     history |-> log_price_history(history, ingredient_id, current_unit_cost,
                                   Fmt4(cost_n, cost_d)).rows,
     status |-> "STOCK_ADJUSTED_AND_PRICE_UPDATED"]

\* the stock and price update of a purchase of an existing ingredient: the
\* quantity is always put in the update, the cost only when the batch is
\* dearer than the stored cost; update_row_by_id is called without await, so
\* the sheet is not written and the truthy coroutine counts as success
purchase_commit(rows, history, ingredient_id, current_unit_cost, new_quantity, cost_n, cost_d) ==
    IF RatGreaterThanTicks(cost_n, cost_d, current_unit_cost)
    THEN [rows |-> NeverAwaited(rows,
                       update_row_by_id(rows, ingredient_id,
                                        [Quantity |-> new_quantity,
                                         CostPerUnit |-> Fmt4(cost_n, cost_d)], TRUE).rows),
          history |-> log_price_history(history, ingredient_id, current_unit_cost,
                                        Fmt4(cost_n, cost_d)).rows,
          status |-> "STOCK_ADJUSTED_AND_PRICE_UPDATED"]
    ELSE [rows |-> NeverAwaited(rows,
                       update_row_by_id(rows, ingredient_id,
                                        [Quantity |-> new_quantity], TRUE).rows),
          history |-> history,
          status |-> "STOCK_ADJUSTED"]

\* the existing-ingredient flow once the rate is known: rate_n / rate_d
purchase_existing(rows, history, counter, rec, quantity, total_cost, rate_n, rate_d) ==
    IF quantity * rate_n = 0
    THEN Outcome(rows, history, counter, "ZeroDivisionError", FALSE, "")
    ELSE With(purchase_commit(rows, history, rec.ID, rec.CostPerUnit,
                              Fmt4(rec.Quantity * rate_d + quantity * rate_n * Scale,
                                   Scale * rate_d),
                              total_cost * rate_d, quantity * rate_n),
              LAMBDA commit : Outcome(commit.rows, commit.history, counter, "", TRUE,
                                      commit.status))

\* process_ingredient_purchase from the unit-cost computation on, with the
\* record the lookup returned
purchase_after_lookup(rows, history, counter, rules, existing_record, name, quantity, unit, total_cost) ==
    IF quantity = 0
    THEN Outcome(rows, history, counter, "", FALSE, "QUANTITY_ZERO")
    ELSE IF existing_record.found
    THEN IF Lower(existing_record.record.Unit) = Lower(unit)
         THEN purchase_existing(rows, history, counter, existing_record.record,
                                quantity, total_cost, 1, 1)
         ELSE With(get_conversion_rate(rules, unit, existing_record.record.Unit),
                   LAMBDA rate :
                     IF rate.raised
                     THEN Outcome(rows, history, counter, "", FALSE,
                                  "CONVERSION_LOOKUP_ERROR")
                     ELSE IF ~rate.found
                     THEN Outcome(rows, history, counter, "", FALSE, "NO_CONVERSION_RATE")
                     ELSE purchase_existing(rows, history, counter,
                                            existing_record.record, quantity, total_cost,
                                            rate.rate.n, rate.rate.d))
    ELSE With(add_new_ingredient(rows, counter, name, quantity, unit, total_cost, quantity),
              LAMBDA added : Outcome(added.rows, history, added.counter, "", TRUE,
                                     "NEW_INGREDIENT_ADDED"))

process_ingredient_purchase(rows, history, counter, rules, name, quantity, unit, total_cost) ==
    With(_find_ingredient_by_name(rows, name), LAMBDA existing_record :
      IF existing_record.raised
      THEN Outcome(rows, history, counter, "", FALSE, "LOOKUP_FAILED")
      ELSE purchase_after_lookup(rows, history, counter, rules, existing_record, name,
                                 quantity, unit, total_cost))

\* the write and the audit entry of a batch price statement
price_commit(rows, history, counter, rec, new_cost_per_stored_unit, io_ok) ==
    With(update_row_by_id(rows, rec.ID, [CostPerUnit |-> new_cost_per_stored_unit], io_ok),
         LAMBDA written :
           IF written.success
           THEN Outcome(written.rows,
                        log_price_history(history, rec.ID, rec.CostPerUnit,
                                          new_cost_per_stored_unit).rows,
                        counter, "", TRUE, "PRICE_UPDATED")
           ELSE Outcome(rows, history, counter, "", FALSE, "WRITE_FAILED"))

\* update_ingredient_cost_per_unit: the only operation whose update_row_by_id
\* is awaited; returns a bare bool
update_ingredient_cost_per_unit(rows, history, counter, rules, name, input_quantity, input_unit, new_price, io_ok) ==
    With(_find_ingredient_by_name(rows, name), LAMBDA ingredient :
      IF ingredient.raised
      THEN Outcome(rows, history, counter, "", FALSE, "LOOKUP_FAILED")
      ELSE IF ~ingredient.found
      THEN Outcome(rows, history, counter, "", FALSE, "NOT_FOUND")
      ELSE With(calculate_converted_quantity(rules, input_quantity, input_unit,
                                             ingredient.record.Unit),
                LAMBDA total :
                  IF ~total.ok \/ total.n = 0
                  THEN Outcome(rows, history, counter, "", FALSE, "CONVERSION_FAILED_OR_ZERO")
                  ELSE price_commit(rows, history, counter, ingredient.record,
                                    Fmt4(new_price * total.d, total.n), io_ok)))

\* the write of set_ingredient_stock, quantity qty_n / qty_d in the stored
\* unit: update_row_by_id is called without await
set_commit(rows, history, counter, ingredient_id, qty_n, qty_d) ==
    Outcome(NeverAwaited(rows, update_row_by_id(rows, ingredient_id,
                                   [Quantity |-> Fmt4(qty_n, qty_d)], TRUE).rows),
            history, counter, "", TRUE, "STOCK_SET")

set_ingredient_stock(rows, history, counter, rules, name, input_quantity, input_unit) ==
    With(_find_ingredient_by_name(rows, name), LAMBDA ingredient :
      IF ingredient.raised
      THEN Outcome(rows, history, counter, "", FALSE, "LOOKUP_FAILED")
      ELSE IF ~ingredient.found
      THEN Outcome(rows, history, counter, "", FALSE, "NOT_FOUND")
      ELSE IF Lower(ingredient.record.Unit) = Lower(input_unit)
      THEN set_commit(rows, history, counter, ingredient.record.ID, input_quantity, 1)
      ELSE With(get_conversion_rate(rules, input_unit, ingredient.record.Unit),
                LAMBDA rate :
                  IF rate.raised
                  THEN Outcome(rows, history, counter, "", FALSE, "CONVERSION_LOOKUP_ERROR")
                  ELSE IF ~rate.found
                  THEN Outcome(rows, history, counter, "", FALSE, "NO_CONVERSION_RATE")
                  ELSE set_commit(rows, history, counter, ingredient.record.ID,
                                  input_quantity * rate.rate.n, rate.rate.d)))

\* adjust_ingredient_stock as the module binds it: the second definition
\* (name, input_quantity, input_unit, is_addition) replaces the first.  With
\* an existing ingredient it stops at the undefined name STOCK_QUANTITY_KEY.
adjust_ingredient_stock(rows, history, counter, rules, name, input_quantity, input_unit, is_addition) ==
    With(_find_ingredient_by_name(rows, name), LAMBDA ingredient_record :
      IF ingredient_record.raised
      THEN Outcome(rows, history, counter, "TypeError", FALSE, "")
      ELSE IF ~ingredient_record.found
      THEN Outcome(rows, history, counter, "", FALSE, "NOT_FOUND")
      ELSE Outcome(rows, history, counter, "NameError", FALSE, ""))

\* atomic_combined_update: building the update dict stops at the undefined
\* name STOCK_QUANTITY_KEY, before any write
atomic_combined_update(rows, history, counter, rules, name, stock_qty_input, stock_unit_input, price_cost_input) ==
    With(_find_ingredient_by_name(rows, name), LAMBDA ingredient_record :
      IF ingredient_record.raised
      THEN Outcome(rows, history, counter, "TypeError", FALSE, "")
      ELSE IF ~ingredient_record.found
      THEN Outcome(rows, history, counter, "", FALSE, "NOT_FOUND")
      ELSE With(calculate_converted_quantity(rules, stock_qty_input, stock_unit_input,
                                             ingredient_record.record.Unit),
                LAMBDA new_stock_qty :
                  IF ~new_stock_qty.ok
                  THEN Outcome(rows, history, counter, "", FALSE, "STOCK_CONVERSION_FAILED")
                  ELSE IF new_stock_qty.n = 0
                  THEN Outcome(rows, history, counter, "", FALSE, "PRICE_CONVERSION_FAILED")
                  ELSE Outcome(rows, history, counter, "NameError", FALSE, "")))

\* get_ingredient_status: with an existing ingredient it stops at the
\* undefined name INGREDIENT_NAME_KEY
get_ingredient_status(rows, history, counter, ingredient_name) ==
    With(_find_ingredient_by_name(rows, ingredient_name), LAMBDA ingredient_record :
      IF ingredient_record.raised
      THEN Outcome(rows, history, counter, "TypeError", FALSE, "")
      ELSE IF ~ingredient_record.found
      THEN Outcome(rows, history, counter, "", FALSE, "NOT_FOUND")
      ELSE Outcome(rows, history, counter, "NameError", FALSE, ""))

-----------------------------------------------------------------------------
(* bot/ingredients_handler.py: messages and patterns.  A message is one of  *)
(* a corpus of sentences, written with its operands: <N> the name, <q> the  *)
(* quantity, <u> the unit, <c> the price.                                   *)

Names == {"FLOUR", "Sugar"}        \* the ledger spells the first "Flour"
InputUnits == {"kg", "g", "l"}
Quantities == 0..MaxQuantity
Costs == {4, MaxCost}              \* below and above the stored cost 5

Msg(form, name, quantity, unit, cost) ==
    [form |-> form, name |-> name, quantity |-> quantity, unit |-> unit, cost |-> cost]

PricedForms == {"Bought <q> <u> <N> for <c>", "<q> <u> <N> is now <c>",
                "<N> stock <q> <u> price <c>"}
OverlapForms == {"quantity of <N> stock <q> <u> price <c>",
                 "Used <q> <u> <N> stock <q> <u> price <c>",
                 "Added <q> <u> <N> stock <q> <u> price <c>"}
StockForms == {"Increase <N> stock by <q> <u>", "Decrease <N> stock by <q> <u>",
               "Set <N> stock to <q> <u>", "Used <q> <u> of <N>", "Added <q> <u> <N>"}
QueryForms == {"What is the stock of <N>?", "What is the status of <N>?"}
BareForms == {"Show Inventory", "stop", "qwerty nonsense"}

Messages ==
    {Msg(f, n, q, u, c) : f \in PricedForms, n \in Names, q \in Quantities,
                          u \in InputUnits, c \in Costs}
    \cup {Msg(f, n, 1, "kg", 5) : f \in OverlapForms, n \in Names}
    \cup {Msg(f, n, q, u, 0) : f \in StockForms, n \in Names, q \in Quantities,
                               u \in InputUnits}
    \cup {Msg(f, n, 0, "", 0) : f \in QueryForms, n \in Names}
    \cup {Msg(f, "", 0, "", 0) : f \in BareForms}

\* re.match of each pattern on the sentences of the corpus
BUY_REGEX(m) == m.form = "Bought <q> <u> <N> for <c>"
ADJUSTMENT_REGEX(m) == m.form \in {"Increase <N> stock by <q> <u>",
                                   "Decrease <N> stock by <q> <u>"}
PRICE_UPDATE_REGEX(m) == m.form = "<q> <u> <N> is now <c>"
QUANTITY_CHECK_REGEX(m) == m.form \in {"What is the stock of <N>?",
                                       "quantity of <N> stock <q> <u> price <c>"}
SET_STOCK_REGEX(m) == m.form = "Set <N> stock to <q> <u>"
STATUS_CHECK_REGEX(m) == m.form = "What is the status of <N>?"
STOCK_USAGE_REGEX_MODIFIED(m) == m.form \in {"Used <q> <u> of <N>",
                                             "Used <q> <u> <N> stock <q> <u> price <c>"}
STOCK_ADDITION_REGEX(m) == m.form \in {"Added <q> <u> <N>",
                                       "Added <q> <u> <N> stock <q> <u> price <c>"}
COMBINED_UPDATE_REGEX(m) == m.form \in {"<N> stock <q> <u> price <c>"} \cup OverlapForms
INVENTORY_REPORT_REGEX(m) == m.form = "Show Inventory"
STOP_REGEX(m) == m.form = "stop"

RuleMatches(rule, m) ==
    CASE rule = "BUY" -> BUY_REGEX(m)
      [] rule = "ADJUSTMENT" -> ADJUSTMENT_REGEX(m)
      [] rule = "PRICE_UPDATE" -> PRICE_UPDATE_REGEX(m)
      [] rule = "QUANTITY_CHECK" -> QUANTITY_CHECK_REGEX(m)
      [] rule = "SET_STOCK" -> SET_STOCK_REGEX(m)
      [] rule = "STATUS_CHECK" -> STATUS_CHECK_REGEX(m)
      [] rule = "STOCK_USAGE" -> STOCK_USAGE_REGEX_MODIFIED(m)
      [] rule = "STOCK_ADDITION" -> STOCK_ADDITION_REGEX(m)
      [] rule = "COMBINED_UPDATE" -> COMBINED_UPDATE_REGEX(m)
      [] rule = "INVENTORY_REPORT" -> INVENTORY_REPORT_REGEX(m)
      [] rule = "STOP" -> STOP_REGEX(m)
      [] OTHER -> FALSE

\* the if / elif chain of dispatch_nlp_action, top to bottom
RuleOrder == <<"BUY", "ADJUSTMENT", "PRICE_UPDATE", "QUANTITY_CHECK", "SET_STOCK",
               "STATUS_CHECK", "STOCK_USAGE", "STOCK_ADDITION", "COMBINED_UPDATE",
               "INVENTORY_REPORT", "STOP">>

\* a chain that tries the combined statement before the query and the
\* usage / addition statements
SelectedRule_combined_first(m) ==
    IF BUY_REGEX(m) THEN "BUY"
    ELSE IF ADJUSTMENT_REGEX(m) THEN "ADJUSTMENT"
    ELSE IF PRICE_UPDATE_REGEX(m) THEN "PRICE_UPDATE"
    ELSE IF COMBINED_UPDATE_REGEX(m) THEN "COMBINED_UPDATE"
    ELSE IF QUANTITY_CHECK_REGEX(m) THEN "QUANTITY_CHECK"
    ELSE IF SET_STOCK_REGEX(m) THEN "SET_STOCK"
    ELSE IF STATUS_CHECK_REGEX(m) THEN "STATUS_CHECK"
    ELSE IF STOCK_USAGE_REGEX_MODIFIED(m) THEN "STOCK_USAGE"
    ELSE IF STOCK_ADDITION_REGEX(m) THEN "STOCK_ADDITION"
    ELSE IF INVENTORY_REPORT_REGEX(m) THEN "INVENTORY_REPORT"
    ELSE IF STOP_REGEX(m) THEN "STOP"
    ELSE "NONE"

\* the branch the chain takes
SelectedRule(m) ==
    IF BUY_REGEX(m) THEN "BUY"
    ELSE IF ADJUSTMENT_REGEX(m) THEN "ADJUSTMENT"
    ELSE IF PRICE_UPDATE_REGEX(m) THEN "PRICE_UPDATE"
    ELSE IF QUANTITY_CHECK_REGEX(m) THEN "QUANTITY_CHECK"
    ELSE IF SET_STOCK_REGEX(m) THEN "SET_STOCK"
    ELSE IF STATUS_CHECK_REGEX(m) THEN "STATUS_CHECK"
    ELSE IF STOCK_USAGE_REGEX_MODIFIED(m) THEN "STOCK_USAGE"
    ELSE IF STOCK_ADDITION_REGEX(m) THEN "STOCK_ADDITION"
    ELSE IF COMBINED_UPDATE_REGEX(m) THEN "COMBINED_UPDATE"
    ELSE IF INVENTORY_REPORT_REGEX(m) THEN "INVENTORY_REPORT"
    ELSE IF STOP_REGEX(m) THEN "STOP"
    ELSE "NONE"

\* the name group of the match of a rule: in an overlapping sentence each
\* pattern captures a different stretch, none of them an ingredient name
NameGroup(rule, m) ==
    IF m.form \in OverlapForms
    THEN IF rule = "COMBINED_UPDATE" THEN "<leading words> <N>"
                                     ELSE "<N> stock <q> <u> price <c>"
    ELSE m.name

-----------------------------------------------------------------------------
(* bot/ingredients_handler.py: handlers.  Each gives the service outcome,   *)
(* the texts it sent itself (reply_html / reply_text inside the handler)    *)
(* and the value it returns to the dispatcher as reply (None when the       *)
(* handler has no return statement on that path).                           *)

Handled(handler, o, sent, reply) ==
    [invoked |-> handler,
     outcome |-> o,
     sent |-> IF o.raised = "" THEN sent ELSE <<>>,
     reply |-> IF o.raised = "" THEN reply ELSE None]

_handle_purchase_action(rows, history, counter, rules, m) ==
    With(process_ingredient_purchase(rows, history, counter, rules,
                                         NameGroup("BUY", m), m.quantity, m.unit, m.cost),
         LAMBDA o : Handled(<<"_handle_purchase_action">>, o, <<>>, IF ~o.success THEN "PURCHASE_FAILED"
                         ELSE IF o.status = "NEW_INGREDIENT_ADDED" THEN "NEW_INGREDIENT_ADDED"
                         ELSE "PURCHASE_PROCESSED"))

\* the call passes action=..., which the bound adjust_ingredient_stock does
\* not accept: TypeError at the call, whatever the ledger holds
_handle_stock_adjustment_action(rows, history, counter, rules, m) ==
    IF m.quantity <= 0
    THEN Handled(<<"_handle_stock_adjustment_action">>, Outcome(rows, history, counter, "", FALSE, "QUANTITY_NOT_POSITIVE"),
                 <<>>, "ADJUST_QUANTITY_MUST_BE_POSITIVE")
    ELSE Handled(<<"_handle_stock_adjustment_action">>, Outcome(rows, history, counter, "TypeError", FALSE, ""), <<>>, None)

_handle_price_update_action(rows, history, counter, rules, m, io_ok) ==
    With(update_ingredient_cost_per_unit(rows, history, counter, rules,
                                             NameGroup("PRICE_UPDATE", m), m.quantity,
                                             m.unit, m.cost, io_ok),
         LAMBDA o : Handled(<<"_handle_price_update_action">>, o, <<>>, IF o.success THEN "PRICE_UPDATED" ELSE "PRICE_UPDATE_FAILED"))

_handle_stock_check_action(rows, history, counter, rules, m) ==
    With(_find_ingredient_by_name(rows, NameGroup("QUANTITY_CHECK", m)),
         LAMBDA ingredient_record :
           IF ingredient_record.raised
           THEN Handled(<<"_handle_stock_check_action">>, Outcome(rows, history, counter, "", FALSE, "LOOKUP_FAILED"),
                        <<>>, "DATABASE_ERROR")
           ELSE IF ~ingredient_record.found
           THEN Handled(<<"_handle_stock_check_action">>, Outcome(rows, history, counter, "", FALSE, "NOT_FOUND"),
                        <<>>, "NOT_FOUND")
           ELSE Handled(<<"_handle_stock_check_action">>, Outcome(rows, history, counter, "", TRUE, "STOCK"), <<>>, "STOCK"))

_handle_stock_set_action(rows, history, counter, rules, m) ==
    With(set_ingredient_stock(rows, history, counter, rules,
                                  NameGroup("SET_STOCK", m), m.quantity, m.unit),
         LAMBDA o : Handled(<<"_handle_stock_set_action">>, o, <<>>, IF o.success THEN "STOCK_SET" ELSE "STOCK_SET_FAILED"))

handle_unified_status_check(rows, history, counter, rules, m) ==
    With(get_ingredient_status(rows, history, counter, NameGroup("STATUS_CHECK", m)),
         LAMBDA o : Handled(<<"handle_unified_status_check">>, o, <<o.status>>, None))

handle_stock_usage(rows, history, counter, rules, m) ==
    With(adjust_ingredient_stock(rows, history, counter, rules,
                                     NameGroup("STOCK_USAGE", m), m.quantity, m.unit, FALSE),
         LAMBDA o : Handled(<<"handle_stock_usage">>, o, <<>>, o.status))

handle_stock_addition(rows, history, counter, rules, m) ==
    With(adjust_ingredient_stock(rows, history, counter, rules,
                                     NameGroup("STOCK_ADDITION", m), m.quantity, m.unit, TRUE),
         LAMBDA o : Handled(<<"handle_stock_addition">>, o, <<o.status>>, None))

handle_combined_inventory_set(rows, history, counter, rules, m) ==
    With(atomic_combined_update(rows, history, counter, rules,
                                    NameGroup("COMBINED_UPDATE", m), m.quantity, m.unit,
                                    m.cost),
         LAMBDA o : Handled(<<"handle_combined_inventory_set">>, o, <<o.status>>, None))

\* ingredients.generate_full_inventory_report does not exist
handle_inventory_report(rows, history, counter, rules, m) ==
    Handled(<<"handle_inventory_report">>, Outcome(rows, history, counter, "AttributeError", FALSE, ""), <<>>, None)

\* the dispatcher calls exit_manager_mode(update) without the context
\* argument: TypeError at the call, inside the try block
exit_manager_mode_call(rows, history, counter, rules, m) ==
    Handled(<<"exit_manager_mode">>, Outcome(rows, history, counter, "TypeError", FALSE, ""), <<>>, None)

INGREDIENTS_MANAGER_FALLBACK_MESSAGE == "UNRECOGNIZED_ACTION_HELP"

\* an else branch that leaves reply unset
no_match_without_reply(rows, history, counter, rules, m) ==
    Handled(<<>>, Outcome(rows, history, counter, "", FALSE, "UNRECOGNIZED"), <<>>, None)

\* the else branch: no handler, the fixed help text
no_match(rows, history, counter, rules, m) ==
    Handled(<<>>, Outcome(rows, history, counter, "", FALSE, "UNRECOGNIZED"),
            <<>>, INGREDIENTS_MANAGER_FALLBACK_MESSAGE)

RunHandler(rule, rows, history, counter, rules, m, io_ok) ==
    CASE rule = "BUY" -> _handle_purchase_action(rows, history, counter, rules, m)
      [] rule = "ADJUSTMENT" -> _handle_stock_adjustment_action(rows, history, counter, rules, m)
      [] rule = "PRICE_UPDATE" ->
             _handle_price_update_action(rows, history, counter, rules, m, io_ok)
      [] rule = "QUANTITY_CHECK" -> _handle_stock_check_action(rows, history, counter, rules, m)
      [] rule = "SET_STOCK" -> _handle_stock_set_action(rows, history, counter, rules, m)
      [] rule = "STATUS_CHECK" -> handle_unified_status_check(rows, history, counter, rules, m)
      [] rule = "STOCK_USAGE" -> handle_stock_usage(rows, history, counter, rules, m)
      [] rule = "STOCK_ADDITION" -> handle_stock_addition(rows, history, counter, rules, m)
      [] rule = "COMBINED_UPDATE" ->
             handle_combined_inventory_set(rows, history, counter, rules, m)
      [] rule = "INVENTORY_REPORT" -> handle_inventory_report(rows, history, counter, rules, m)
      [] rule = "STOP" -> exit_manager_mode_call(rows, history, counter, rules, m)
      [] OTHER -> no_match(rows, history, counter, rules, m)

-----------------------------------------------------------------------------
(* The dispatcher *)

CRITICAL_ERROR_REPLY == "CRITICAL_SYSTEM_ERROR"

\* update.message.reply_text(reply) after the try block: a reply that is None
\* has no text to send; the Bot API refuses a message without text and the
\* error leaves the dispatcher, as nothing encloses this call
reply_text(sent, reply) ==
    IF reply = None THEN [sent |-> sent, escaped |-> TRUE]
                    ELSE [sent |-> Append(sent, reply), escaped |-> FALSE]

NoMessage == Msg("", "", 0, "", 0)

INGREDIENT_MANAGER_MODE == 2     \* the state of the ConversationHandler
ConversationHandler_END == 0 - 1

\* one inbound text message in ingredient-manager mode, start to end.  The
\* state handler takes every text that is not a command, STOP included, so
\* the fallback of the ConversationHandler is never consulted in this state.
\* Every return of the function gives INGREDIENT_MANAGER_MODE: the STOP branch
\* raises at its call (exit_manager_mode_call) and never returns.
dispatch_nlp_action(m, io_ok) ==
    \E rule \in {SelectedRule(m)} :
      /\ conversation.state = INGREDIENT_MANAGER_MODE
      /\ io_ok \/ rule = "PRICE_UPDATE"   \* the one path with an awaited write
      /\ \E h \in {RunHandler(rule, ingredients, price_history, next_ing_id, units, m,
                               io_ok)} :
         \E reply \in {IF h.outcome.raised # "" THEN CRITICAL_ERROR_REPLY ELSE h.reply} :
         \E out \in {reply_text(h.sent, reply)} :
           /\ ingredients' = h.outcome.rows
           /\ price_history' = h.outcome.history
           /\ next_ing_id' = h.outcome.counter
           /\ last' = [msg |-> m, rule |-> rule, io_ok |-> io_ok,
                       success |-> h.outcome.success, status |-> h.outcome.status,
                       invoked |-> h.invoked, caught |-> h.outcome.raised,
                       reply |-> reply,
                       sent |-> out.sent, escaped |-> out.escaped]
           /\ conversation' = IF out.escaped THEN conversation
                               ELSE [conversation EXCEPT !.state = INGREDIENT_MANAGER_MODE]
           /\ UNCHANGED <<units, calls>>

-----------------------------------------------------------------------------
(* Initial sheets: as an operator keeps them by hand *)

Row(id, name, unit, quantity, cost) ==
    [ID |-> id, Name |-> name, Unit |-> unit, Quantity |-> quantity, CostPerUnit |-> cost]

Rule(from_unit, to_unit, rate) ==
    [From_Unit |-> from_unit, To_Unit |-> to_unit, Conversion_Rate |-> rate]

UnitTable == <<Rule("l", "ml", 1000), Rule("Kg", "G", 1000)>>

\* a new installation; one ingredient and no unit rules yet; a kept ledger
InitialSheets ==
    { [ingredients |-> <<>>, units |-> UnitTable],
      [ingredients |-> <<Row("ING001", "Flour", "kg", 1 * Scale, 5 * Scale)>>,
       units |-> <<>>],
      [ingredients |-> <<Row("ING001", "Salt", "g", 500 * Scale, 20),
                         Row("ING002", "Flour", "kg", 2 * Scale, 5 * Scale)>>,
       units |-> UnitTable] }

\* the chat after enter_manager_mode
InManagerMode == [state |-> INGREDIENT_MANAGER_MODE, user_data |-> {"mode"}]

NothingHandled ==
    [msg |-> NoMessage, rule |-> "", io_ok |-> TRUE, success |-> FALSE,
     status |-> "", invoked |-> <<>>, caught |-> "", reply |-> "",
     sent |-> <<>>, escaped |-> FALSE]

Init ==
    /\ \E sheets \in InitialSheets : /\ ingredients = sheets.ingredients
                                     /\ units = sheets.units
    /\ price_history = <<>>
    /\ next_ing_id = Len(ingredients) + 1
    /\ last = NothingHandled
    /\ conversation = InManagerMode
    /\ calls = <<>>

Next == \E m \in Messages, io_ok \in BOOLEAN : dispatch_nlp_action(m, io_ok)

Spec == Init /\ [][Next]_vars

-----------------------------------------------------------------------------
(* Properties.  A step of the dispatcher is named by what it leaves in      *)
(* last'; the sheets before the step are the unprimed variables.            *)

\* the message a step handled, and whether a stored name matches its operand
Known(rows, name) == \E i \in DOMAIN rows : Lower(rows[i].Name) = Lower(name)

StoredIn(rows, name) == _find_ingredient_by_name(rows, name).record

\* the quantity of message m in the unit of the stored record rec
Converted(m, rec) == calculate_converted_quantity(units, m.quantity, m.unit, rec.Unit)

\* C1: a purchase of an existing ingredient that reports success leaves the
\* stored quantity at current + quantity * rate, stores the batch's unit cost
\* exactly when it is strictly greater than the stored cost (status
\* STOCK_ADJUSTED_AND_PRICE_UPDATED) and otherwise leaves the cost as it was
\* (status STOCK_ADJUSTED).
C1_PurchaseUpdatesExisting ==
    [][(last'.rule = "BUY" /\ last'.success /\ Known(ingredients, last'.msg.name))
       => LET m == last'.msg
              before == StoredIn(ingredients, m.name)
              after == StoredIn(ingredients', m.name)
              conv == Converted(m, before)
              dearer == RatGreaterThanTicks(m.cost * conv.d, conv.n, before.CostPerUnit)
          IN  /\ after.Quantity = Fmt4(before.Quantity * conv.d + conv.n * Scale,
                                       Scale * conv.d)
              /\ dearer => /\ after.CostPerUnit = Fmt4(m.cost * conv.d, conv.n)
                           /\ last'.status = "STOCK_ADJUSTED_AND_PRICE_UPDATED"
              /\ ~dearer => /\ after.CostPerUnit = before.CostPerUnit
                            /\ last'.status = "STOCK_ADJUSTED"]_vars

\* C2: no purchase lowers the stored cost of any ingredient, so over any run
\* of purchases the stored cost of a known ingredient never decreases.
C2_PurchaseNeverLowersCost ==
    [][last'.rule = "BUY"
       => \A i \in DOMAIN ingredients :
            /\ i \in DOMAIN ingredients'
            /\ ingredients'[i].CostPerUnit >= ingredients[i].CostPerUnit]_vars

\* C2, the case: a purchase of a known ingredient at a unit cost strictly
\* below the stored cost was processed and reported success
C2_CheaperPurchaseProcessed ==
    /\ last.rule = "BUY"
    /\ last.success
    /\ Known(ingredients, last.msg.name)
    /\ LET rec == StoredIn(ingredients, last.msg.name)
           conv == Converted(last.msg, rec)
       IN  conv.ok /\ conv.n > 0
           /\ last.msg.cost * conv.d * Scale < rec.CostPerUnit * conv.n

\* C3: a purchase with quantity > 0 of a name no stored ingredient matches
\* (an empty ledger included) succeeds, adds exactly one record with the
\* purchased quantity, the unit and cost = total_cost / quantity, and
\* advances the ingredient counter by one.
C3_PurchaseCreatesUnknown ==
    [][(last'.rule = "BUY" /\ last'.msg.quantity > 0
        /\ ~Known(ingredients, last'.msg.name))
       => /\ last'.success
          /\ Len(ingredients') = Len(ingredients) + 1
          /\ LET m == last'.msg
                 new == ingredients'[Len(ingredients')]
             IN  /\ Lower(new.Name) = Lower(m.name)
                 /\ new.Quantity = m.quantity * Scale
                 /\ new.Unit = m.unit
                 /\ new.CostPerUnit = Fmt4(m.cost, m.quantity)
          /\ next_ing_id' = next_ing_id + 1]_vars

\* the reply of a rejected adjustment that would leave the stock negative
INSUFFICIENT_STOCK == "INSUFFICIENT_STOCK"

\* C4: every stored quantity stays >= 0, and a decrease command or a usage
\* statement whose result would be negative is rejected with the
\* insufficient-stock failure and leaves the ledger as it was.
C4_NegativeAdjustmentRejected ==
    [][/\ \A i \in DOMAIN ingredients' : ingredients'[i].Quantity >= 0
       /\ (/\ last'.msg.form \in {"Decrease <N> stock by <q> <u>", "Used <q> <u> of <N>"}
           /\ Known(ingredients, last'.msg.name)
           /\ LET rec == StoredIn(ingredients, last'.msg.name)
                  conv == Converted(last'.msg, rec)
              IN  conv.ok /\ rec.Quantity * conv.d < conv.n * Scale)
          => /\ last'.sent = <<INSUFFICIENT_STOCK>>
             /\ ~last'.escaped
             /\ ingredients' = ingredients]_vars

\* C5: a set-stock statement on an existing ingredient that reports success
\* leaves the stored quantity equal to the input converted to the stored unit,
\* whatever it was before, and leaves the cost untouched.
C5_SetStoresInputQuantity ==
    [][(last'.rule = "SET_STOCK" /\ last'.success)
       => LET m == last'.msg
              before == StoredIn(ingredients, m.name)
              after == StoredIn(ingredients', m.name)
              conv == Converted(m, before)
          IN  /\ after.Quantity = Fmt4(conv.n, conv.d)
              /\ after.CostPerUnit = before.CostPerUnit]_vars

\* C6: a combined statement (name, q, u, p) on an existing ingredient with
\* q > 0 and a resolvable unit succeeds, and the ingredient then reads
\* quantity = q converted to the stored unit and cost = p / converted(q).
C6_CombinedSetRoundTrip ==
    [][(/\ last'.rule = "COMBINED_UPDATE"
        /\ last'.msg.form = "<N> stock <q> <u> price <c>"
        /\ last'.msg.quantity > 0
        /\ Known(ingredients, last'.msg.name)
        /\ Converted(last'.msg, StoredIn(ingredients, last'.msg.name)).ok)
       => LET m == last'.msg
              conv == Converted(m, StoredIn(ingredients, m.name))
              after == StoredIn(ingredients', m.name)
          IN  /\ last'.success
              /\ after.Quantity = Fmt4(conv.n, conv.d)
              /\ after.CostPerUnit = Fmt4(m.cost * conv.d, conv.n)]_vars

\* C7: a batch price statement on an existing ingredient with a non-zero
\* converted quantity (and a sheet that accepts the write) stores cost =
\* price / converted quantity, lower or not, leaves the quantity unchanged and
\* appends one audit entry with the old and the new cost.
C7_PriceUpdateWritesAndLogs ==
    [][(/\ last'.rule = "PRICE_UPDATE"
        /\ last'.io_ok
        /\ Known(ingredients, last'.msg.name)
        /\ LET conv == Converted(last'.msg, StoredIn(ingredients, last'.msg.name))
           IN  conv.ok /\ conv.n # 0)
       => LET m == last'.msg
              before == StoredIn(ingredients, m.name)
              after == StoredIn(ingredients', m.name)
              conv == Converted(m, before)
          IN  /\ after.CostPerUnit = Fmt4(m.cost * conv.d, conv.n)
              /\ after.Quantity = before.Quantity
              /\ price_history' =
                   Append(price_history,
                          [ingredients_Id |-> before.ID,
                           old_cost_per_unit |-> before.CostPerUnit,
                           new_cost_per_unit |-> after.CostPerUnit])]_vars

\* C8: whatever rule a message matches and however the ledger operation
\* ends, the user is sent a reply and no exception leaves the dispatcher.
C8_AlwaysRepliesNeverEscapes ==
    last.rule # "" => (last.sent # <<>> /\ ~last.escaped)

\* the handler each branch of the chain calls
HandlerOf(rule) ==
    CASE rule = "BUY" -> "_handle_purchase_action"
      [] rule = "ADJUSTMENT" -> "_handle_stock_adjustment_action"
      [] rule = "PRICE_UPDATE" -> "_handle_price_update_action"
      [] rule = "QUANTITY_CHECK" -> "_handle_stock_check_action"
      [] rule = "SET_STOCK" -> "_handle_stock_set_action"
      [] rule = "STATUS_CHECK" -> "handle_unified_status_check"
      [] rule = "STOCK_USAGE" -> "handle_stock_usage"
      [] rule = "STOCK_ADDITION" -> "handle_stock_addition"
      [] rule = "COMBINED_UPDATE" -> "handle_combined_inventory_set"
      [] rule = "INVENTORY_REPORT" -> "handle_inventory_report"
      [] rule = "STOP" -> "exit_manager_mode"

\* positions in the chain of the rules whose pattern matches m
MatchingRules(m) == {i \in DOMAIN RuleOrder : RuleMatches(RuleOrder[i], m)}

\* C9: first match wins: at most one handler is invoked per message, and it
\* is the handler of the earliest rule of the chain whose pattern matches; a
\* later rule that also matches is not invoked.
C9_FirstMatchWins ==
    last.rule # ""
    => /\ Len(last.invoked) <= 1
       /\ MatchingRules(last.msg) = {} => last.invoked = <<>>
       /\ MatchingRules(last.msg) # {}
          => LET first == CHOOSE i \in MatchingRules(last.msg) :
                             \A j \in MatchingRules(last.msg) : i <= j
             IN  /\ last.rule = RuleOrder[first]
                 /\ last.invoked = <<HandlerOf(RuleOrder[first])>>

\* C9, the case: a sentence two patterns match was dispatched, to the earlier
C9_OverlapDispatched ==
    /\ Cardinality(MatchingRules(last.msg)) >= 2
    /\ last.rule \in {"QUANTITY_CHECK", "STOCK_USAGE", "STOCK_ADDITION"}
    /\ last.invoked # <<>>

\* C10: a message no pattern matches gets exactly the fixed fallback text as
\* reply, raises nothing, and changes no ingredient, counter or audit row.
C10_NoMatchFallback ==
    [][(\A i \in DOMAIN RuleOrder : ~RuleMatches(RuleOrder[i], last'.msg))
       => /\ last'.sent = <<INGREDIENTS_MANAGER_FALLBACK_MESSAGE>>
          /\ last'.caught = ""
          /\ ~last'.escaped
          /\ UNCHANGED <<ingredients, price_history, next_ing_id>>]_vars

\* C10, the case: a sentence outside every pattern was answered
C10_NonsenseAnswered ==
    /\ last.msg.form = "qwerty nonsense"
    /\ MatchingRules(last.msg) = {}
    /\ last.reply = INGREDIENTS_MANAGER_FALLBACK_MESSAGE

\* the rules whose operation needs an ingredient that is already stored
NeedsExisting == {"ADJUSTMENT", "PRICE_UPDATE", "QUANTITY_CHECK", "SET_STOCK",
                  "STATUS_CHECK", "STOCK_USAGE", "STOCK_ADDITION", "COMBINED_UPDATE"}

\* C11: an operation that needs an existing ingredient, given a name no
\* stored ingredient matches, answers with a not-found failure (a failed
\* lookup on a sheet without rows counted as one), raises nothing, and leaves ingredients, counter and audit log unchanged.
C11_UnknownNameNotFound ==
    [][(/\ last'.rule \in NeedsExisting
        /\ last'.msg.form \notin OverlapForms
        /\ last'.rule = "ADJUSTMENT" => last'.msg.quantity > 0
        /\ ~Known(ingredients, last'.msg.name))
       => /\ last'.status \in {"NOT_FOUND", "LOOKUP_FAILED"}
          /\ last'.sent # <<>>
          /\ last'.caught = ""
          /\ ~last'.escaped
          /\ UNCHANGED <<ingredients, price_history, next_ing_id>>]_vars

\* the statuses with which an operation gives up for want of a rate
ConversionFailures == {"NO_CONVERSION_RATE", "CONVERSION_LOOKUP_ERROR",
                       "CONVERSION_FAILED_OR_ZERO", "STOCK_CONVERSION_FAILED"}

\* C12: in every ledger operation (purchase, set, adjust, usage / addition,
\* batch price, combined set) on an existing ingredient, when no rate is found
\* between the input unit and the stored unit the operation ends as a
\* conversion failure and nothing is applied: no field written, no audit row.
C12_ConversionMissAborts ==
    [][(/\ last'.rule \in {"BUY", "ADJUSTMENT", "SET_STOCK", "PRICE_UPDATE",
                           "STOCK_USAGE", "STOCK_ADDITION", "COMBINED_UPDATE"}
        /\ last'.msg.form \notin OverlapForms
        /\ last'.rule \in {"BUY", "ADJUSTMENT"} => last'.msg.quantity > 0
        /\ Known(ingredients, last'.msg.name)
        /\ ~Converted(last'.msg, StoredIn(ingredients, last'.msg.name)).ok)
       => /\ ~last'.success
          /\ last'.status \in ConversionFailures
          /\ UNCHANGED <<ingredients, price_history, next_ing_id>>]_vars

\* C18: every successful operation that changes a stored cost appends
\* exactly one audit entry holding the old and the new cost.
C18_CostChangeAudited ==
    [][\A i \in DOMAIN ingredients :
         (/\ last'.success
          /\ i \in DOMAIN ingredients'
          /\ ingredients'[i].CostPerUnit # ingredients[i].CostPerUnit)
         => price_history' =
              Append(price_history,
                     [ingredients_Id |-> ingredients[i].ID,
                      old_cost_per_unit |-> ingredients[i].CostPerUnit,
                      new_cost_per_unit |-> ingredients'[i].CostPerUnit])]_vars

\* C19: a purchase, batch price statement or combined set that states a new
\* cost for a stored ingredient and whose audit row does not get appended
\* still stores the cost and reports success.
C19_WriteSurvivesMissingAudit ==
    [][(/\ last'.rule \in {"BUY", "PRICE_UPDATE", "COMBINED_UPDATE"}
        /\ last'.msg.form \notin OverlapForms
        /\ last'.io_ok
        /\ Known(ingredients, last'.msg.name)
        /\ LET before == StoredIn(ingredients, last'.msg.name)
               conv == Converted(last'.msg, before)
           IN  /\ conv.ok /\ conv.n # 0
               /\ RatGreaterThanTicks(last'.msg.cost * conv.d, conv.n, before.CostPerUnit)
        /\ price_history' = price_history)
       => LET conv == Converted(last'.msg, StoredIn(ingredients, last'.msg.name))
          IN  /\ last'.success
              /\ StoredIn(ingredients', last'.msg.name).CostPerUnit
                   = Fmt4(last'.msg.cost * conv.d, conv.n)]_vars

\* C20: STOP in manager mode ends the conversation and removes 'mode' from
\* the user data, so that the next message is not taken as an inventory
\* statement.
C20_StopLeavesManagerMode ==
    [][last'.rule = "STOP"
       => /\ conversation'.state = ConversationHandler_END
          /\ "mode" \notin conversation'.user_data]_vars

\* C21: an increase or decrease statement with q > 0 on an existing
\* ingredient, whose unit converts, leaves the stored quantity at
\* current + converted(q) for an increase and at current - converted(q) for
\* a decrease when that is not negative.
C21_AdjustmentApplied ==
    [][(/\ last'.rule = "ADJUSTMENT"
        /\ last'.msg.quantity > 0
        /\ Known(ingredients, last'.msg.name)
        /\ Converted(last'.msg, StoredIn(ingredients, last'.msg.name)).ok)
       => LET m == last'.msg
              before == StoredIn(ingredients, m.name)
              after == StoredIn(ingredients', m.name)
              conv == Converted(m, before)
              amount == Fmt4(conv.n, conv.d)
          IN  /\ m.form = "Increase <N> stock by <q> <u>"
                 => after.Quantity = before.Quantity + amount
              /\ (m.form = "Decrease <N> stock by <q> <u>" /\ before.Quantity >= amount)
                 => after.Quantity = before.Quantity - amount]_vars

\* C22: the rules are tried in the order purchase, relative adjustment,
\* absolute set, batch price statement, combined statement, usage, addition,
\* stock query, status query, report, exit; a sentence matching several rules
\* goes to the first of them in that order.
C22_DispatchPriority ==
    [][LET order == <<"BUY", "ADJUSTMENT", "SET_STOCK", "PRICE_UPDATE", "COMBINED_UPDATE",
                      "STOCK_USAGE", "STOCK_ADDITION", "QUANTITY_CHECK", "STATUS_CHECK",
                      "INVENTORY_REPORT", "STOP">>
       IN  \A i \in DOMAIN order :
             (/\ RuleMatches(order[i], last'.msg)
              /\ \A j \in 1..(i - 1) : ~RuleMatches(order[j], last'.msg))
             => last'.rule = order[i]]_vars

\* C24: a combined set on an existing ingredient with a convertible, non-zero
\* quantity and a sheet that accepts the write stores the new quantity and
\* the new cost together; whatever happens, the record never shows one of
\* the two new values next to the old other one.
C24_CombinedSetWritesBothOrNone ==
    [][(/\ last'.rule = "COMBINED_UPDATE"
        /\ last'.msg.form \notin OverlapForms
        /\ Known(ingredients, last'.msg.name)
        /\ LET conv == Converted(last'.msg, StoredIn(ingredients, last'.msg.name))
           IN  conv.ok /\ conv.n # 0)
       => LET m == last'.msg
              before == StoredIn(ingredients, m.name)
              after == StoredIn(ingredients', m.name)
              conv == Converted(m, before)
              written == [Quantity |-> Fmt4(conv.n, conv.d),
                          CostPerUnit |-> Fmt4(m.cost * conv.d, conv.n)]
              shown(rec) == [Quantity |-> rec.Quantity, CostPerUnit |-> rec.CostPerUnit]
          IN  /\ shown(after) \in {shown(before), written}
              /\ last'.io_ok => shown(after) = written]_vars

\* C25: a purchase of an unknown name (quantity > 0, ledger readable) whose
\* record does not reach the sheet returns a failure and leaves the counter
\* advanced by the id it allocated.
C25_FailedCreateOrphansId ==
    [][(/\ last'.rule = "BUY"
        /\ last'.msg.quantity > 0
        /\ ingredients # <<>>
        /\ ~Known(ingredients, last'.msg.name)
        /\ ingredients' = ingredients)
       => /\ ~last'.success
          /\ next_ing_id' = next_ing_id + 1]_vars

\* C26: no step changes the id, the name or the unit of a stored ingredient
\* or removes a record: the (id, name, unit) triples of the ledger only grow.
C26_IdentityFieldsKept ==
    [][LET triples(rows) == {<<rows[i].ID, rows[i].Name, rows[i].Unit>> : i \in DOMAIN rows}
       IN  /\ triples(ingredients) \subseteq triples(ingredients')
           /\ Len(ingredients') >= Len(ingredients)]_vars

\* C26, the case: a price statement has rewritten the cost of Flour
C26_CostRewritten ==
    /\ last.rule = "PRICE_UPDATE" /\ last.success
    /\ \E i \in DOMAIN ingredients :
         /\ ingredients[i].Name = "Flour" /\ ingredients[i].Unit = "kg"
         /\ ingredients[i].CostPerUnit # 5 * Scale

\* C27: when a purchase, a set or a price statement reports success, the
\* write it issued has been executed: the stored record holds the quantity
\* or cost the operation computed, and a purchase of an unknown name has
\* stored the new record and advanced the counter.
C27_SuccessBackedByWrite ==
    [][(last'.success /\ last'.rule \in {"BUY", "SET_STOCK", "PRICE_UPDATE"})
       => LET m == last'.msg
              before == StoredIn(ingredients, m.name)
              after == StoredIn(ingredients', m.name)
              conv == Converted(m, before)
          IN  /\ (last'.rule = "BUY" /\ Known(ingredients, m.name))
                 => after.Quantity = before.Quantity + Fmt4(conv.n, conv.d)
              /\ (last'.rule = "BUY" /\ ~Known(ingredients, m.name))
                 => /\ Known(ingredients', m.name)
                    /\ next_ing_id' = next_ing_id + 1
              /\ last'.rule = "SET_STOCK" => after.Quantity = Fmt4(conv.n, conv.d)
              /\ last'.rule = "PRICE_UPDATE"
                 => after.CostPerUnit = Fmt4(m.cost * conv.d, conv.n)]_vars

C29_RepeatedPurchaseUpdatesRecord ==
    [][(/\ last'.rule = "BUY"
        /\ last'.success
        /\ Known(ingredients, last'.msg.name))
       => /\ \A i, j \in DOMAIN ingredients' :
               Lower(ingredients'[i].Name) = Lower(ingredients'[j].Name) => i = j
          /\ Len(ingredients') = Len(ingredients)
          /\ StoredIn(ingredients', last'.msg.name)
               # StoredIn(ingredients, last'.msg.name)]_vars

-----------------------------------------------------------------------------
(* The resolver on its own: get_conversion_rate applied to a pair of unit   *)
(* tokens over a Units sheet of any content.                                *)

UnitTokens == {"kg", "Kg", " kg ", "g"}
Rates == {0, 2, 1000, NotANumber}

RuleSpace == {Rule(f, t, r) : f \in UnitTokens, t \in UnitTokens, r \in Rates}
                \ {x \in [From_Unit : UnitTokens, To_Unit : UnitTokens,
                          Conversion_Rate : Rates] : Lower(x.From_Unit) = Lower(x.To_Unit)}

UnitSheets == UNION {[1..n -> RuleSpace] : n \in 0..MaxRules}

InitResolver ==
    /\ units \in UnitSheets
    /\ ingredients = <<>>
    /\ price_history = <<>>
    /\ next_ing_id = 1
    /\ last = NothingHandled
    /\ conversation = InManagerMode
    /\ calls = <<>>

\* one call of the resolver, start to end
resolve(from_unit, to_unit) ==
    /\ calls' = <<[op |-> "get_conversion_rate", from_unit |-> from_unit,
                   to_unit |-> to_unit,
                   result |-> get_conversion_rate(units, from_unit, to_unit)]>>
    /\ UNCHANGED <<ingredients, units, price_history, next_ing_id, last, conversation>>

NextResolver == \E from_unit \in UnitTokens, to_unit \in UnitTokens :
                   resolve(from_unit, to_unit)

SpecResolver == InitResolver /\ [][NextResolver]_vars

Resolved == calls # <<>> /\ calls[1].op = "get_conversion_rate"

\* row i of the Units sheet stores a usable direct rate from unit a to unit b
StoresRate(i, a, b) ==
    /\ Lower(units[i].From_Unit) = Lower(a)
    /\ Lower(units[i].To_Unit) = Lower(b)
    /\ units[i].Conversion_Rate # NotANumber
    /\ units[i].Conversion_Rate # 0

\* C13 as stated: whenever the table stores a direct rate r from a to b,
\* resolve(b, a) is 1 / r.
C13_InverseConsistency ==
    Resolved
    => \A i \in DOMAIN units :
         StoresRate(i, calls[1].to_unit, calls[1].from_unit)
         => /\ calls[1].result.found
            /\ calls[1].result.rate = Rat(1, units[i].Conversion_Rate)

\* C13, amended: when the only record for the pair is the forward one (none
\* from b to a, and r the first usable rate stored from a to b),
\* resolve(b, a) is 1 / r.
C13_InverseWhenOnlyForward ==
    Resolved
    => \A i \in DOMAIN units :
         (/\ StoresRate(i, calls[1].to_unit, calls[1].from_unit)
          /\ \A j \in 1..(i - 1) : ~StoresRate(j, calls[1].to_unit, calls[1].from_unit)
          /\ \A j \in DOMAIN units :
               ~(/\ Lower(units[j].From_Unit) = Lower(calls[1].from_unit)
                 /\ Lower(units[j].To_Unit) = Lower(calls[1].to_unit)
                 /\ units[j].Conversion_Rate # NotANumber))
         => /\ ~calls[1].result.raised
            /\ calls[1].result.found
            /\ calls[1].result.rate = Rat(1, units[i].Conversion_Rate)

\* C13, the case: grams resolved to kilograms over a sheet that only stores
\* kilograms to grams
C13_InverseServed ==
    /\ Resolved
    /\ units = <<Rule("Kg", "g", 1000)>>
    /\ calls[1].from_unit = "g" /\ calls[1].to_unit = " kg "
    /\ calls[1].result.rate = Rat(1, 1000)

\* C14: two tokens equal after trimming and case-folding resolve to 1.0
\* whatever the table holds, an empty or unreadable table included.
C14_IdentityRate ==
    (Resolved /\ Lower(calls[1].from_unit) = Lower(calls[1].to_unit))
    => calls[1].result = [raised |-> FALSE, found |-> TRUE, rate |-> Rat(1, 1)]

\* C14, the case: differently written tokens of one unit, over an empty sheet
C14_IdentityOverEmptySheet ==
    /\ Resolved
    /\ units = <<>>
    /\ calls[1].from_unit = " kg " /\ calls[1].to_unit = "Kg"
    /\ calls[1].result.found

-----------------------------------------------------------------------------
(* The id allocator step by step: get_next_unique_id awaits the read of the *)
(* Config value and then the write of the next one; other tasks run at each *)
(* await.  The ids are compared by their number (prefix and zero padding    *)
(* are the same for every id of a key).  Each call is a record of calls;    *)
(* before and after are the counter as the call found and left it.          *)

NoId == 0     \* the allocator returned None

\* a successor that leaves the number where it was
next_num_unchanged(current_num) == current_num

\* next_num = current_num + 1
next_num(current_num) == current_num + 1

\* a write-back that is refused when the counter is no longer the value read
reserve_next_id_compare_and_set(counter, current_num, io_ok) ==
    IF io_ok /\ counter = current_num
    THEN [counter |-> next_num(current_num), id |-> current_num, ok |-> TRUE]
    ELSE [counter |-> counter, id |-> NoId, ok |-> FALSE]

\* step 3 of get_next_unique_id: the next id is written over the Config
\* value, whatever it holds by now, and the id read in step 1 is returned
reserve_next_id(counter, current_num, io_ok) ==
    IF io_ok
    THEN [counter |-> next_num(current_num), id |-> current_num, ok |-> TRUE]
    ELSE [counter |-> counter, id |-> NoId, ok |-> FALSE]

InitAllocator ==
    /\ next_ing_id \in 1..MaxStart
    /\ calls = <<>>
    /\ ingredients = <<>>
    /\ units = <<>>
    /\ price_history = <<>>
    /\ last = NothingHandled
    /\ conversation = InManagerMode

\* a task calls get_next_unique_id; serial callers wait for the previous call
allocate(serial) ==
    /\ Len(calls) < MaxAllocations
    /\ serial => \A i \in DOMAIN calls : calls[i].pc = "done"
    /\ calls' = Append(calls, [op |-> "get_next_unique_id", pc |-> "read",
                               before |-> next_ing_id, current |-> NoId,
                               io_ok |-> TRUE, ok |-> FALSE,
                               returned |-> NoId, after |-> next_ing_id])
    /\ UNCHANGED <<ingredients, units, price_history, next_ing_id, last, conversation>>

\* await read_config_value(key) of call i
read_config_value(i, io_ok) ==
    /\ calls[i].pc = "read"
    /\ calls' = [calls EXCEPT ![i] =
                    IF io_ok
                    THEN [@ EXCEPT !.pc = "write", !.current = next_ing_id]
                    ELSE [@ EXCEPT !.pc = "done", !.io_ok = FALSE]]
    /\ UNCHANGED <<ingredients, units, price_history, next_ing_id, last, conversation>>

\* await update_config_value(key, next_id_str) of call i, and the return
update_config_value(i, io_ok) ==
    /\ calls[i].pc = "write"
    /\ \E r \in {reserve_next_id(next_ing_id, calls[i].current, io_ok)} :
         /\ next_ing_id' = r.counter
         /\ calls' = [calls EXCEPT ![i] =
                         [@ EXCEPT !.pc = "done", !.io_ok = io_ok, !.ok = r.ok,
                                   !.returned = r.id, !.after = r.counter]]
    /\ UNCHANGED <<ingredients, units, price_history, last, conversation>>

NextSerialAllocator ==
    \/ allocate(TRUE)
    \/ \E i \in DOMAIN calls, io_ok \in BOOLEAN : read_config_value(i, io_ok)
    \/ \E i \in DOMAIN calls, io_ok \in BOOLEAN : update_config_value(i, io_ok)

SpecSerialAllocator == InitAllocator /\ [][NextSerialAllocator]_vars

NextConcurrentAllocator ==
    \/ allocate(FALSE)
    \/ \E i \in DOMAIN calls, io_ok \in BOOLEAN : read_config_value(i, io_ok)
    \/ \E i \in DOMAIN calls, io_ok \in BOOLEAN : update_config_value(i, io_ok)

SpecConcurrentAllocator == InitAllocator /\ [][NextConcurrentAllocator]_vars

Allocated(i) == calls[i].op = "get_next_unique_id" /\ calls[i].pc = "done" /\ calls[i].ok

\* C15: allocations made one after the other whose writes succeed each
\* return the value the counter held before the call and leave the counter
\* at that value plus one; the ids are distinct and strictly increasing.
C15_SerialIdsIncrease ==
    \A i \in DOMAIN calls :
      Allocated(i)
      => /\ calls[i].returned = calls[i].before
         /\ calls[i].after = calls[i].before + 1
         /\ \A j \in DOMAIN calls :
              (i < j /\ Allocated(j)) => calls[i].returned < calls[j].returned

\* C15, the case: three allocations in a row, all written
C15_ThreeAllocated ==
    /\ Len(calls) = 3
    /\ \A i \in DOMAIN calls : Allocated(i)

-----------------------------------------------------------------------------
(* Purchases of one ingredient as tasks of the webhook: a task is suspended *)
(* at 'await _find_ingredient_by_name' and runs from the record it got to   *)
(* its return once resumed (the rate lookup in between reads the Units      *)
(* sheet only, which no purchase writes).                                   *)

InitPurchases ==
    /\ ingredients \in {<<Row("ING001", "Flour", "kg", q * Scale, 5 * Scale)>> : q \in 1..2}
    /\ units = UnitTable
    /\ price_history = <<>>
    /\ next_ing_id = 2
    /\ calls = <<>>
    /\ last = NothingHandled
    /\ conversation = InManagerMode

\* a purchase statement arrives and its task starts
purchase(quantity, unit, total_cost) ==
    /\ Len(calls) < MaxPurchases
    /\ calls' = Append(calls, [op |-> "process_ingredient_purchase", pc |-> "find",
                               name |-> "FLOUR", quantity |-> quantity, unit |-> unit,
                               total_cost |-> total_cost,
                               existing_record |-> [raised |-> FALSE, found |-> FALSE,
                                                    record |-> NoRecord],
                               success |-> FALSE, status |-> ""])
    /\ UNCHANGED <<ingredients, units, price_history, next_ing_id, last, conversation>>

\* await _find_ingredient_by_name(name) of task i
purchase_find(i) ==
    /\ calls[i].pc = "find"
    /\ calls' = [calls EXCEPT ![i] =
                    [@ EXCEPT !.pc = "update",
                              !.existing_record =
                                  _find_ingredient_by_name(ingredients, calls[i].name)]]
    /\ UNCHANGED <<ingredients, units, price_history, next_ing_id, last, conversation>>

\* task i from the record it read to its return
purchase_update(i) ==
    /\ calls[i].pc = "update"
    /\ \E o \in {purchase_after_lookup(ingredients, price_history, next_ing_id, units,
                                       calls[i].existing_record, calls[i].name,
                                       calls[i].quantity, calls[i].unit,
                                       calls[i].total_cost)} :
         /\ ingredients' = o.rows
         /\ price_history' = o.history
         /\ next_ing_id' = o.counter
         /\ calls' = [calls EXCEPT ![i] =
                         [@ EXCEPT !.pc = "done", !.success = o.success,
                                   !.status = o.status]]
    /\ UNCHANGED <<units, last, conversation>>

NextPurchases ==
    \/ \E quantity \in 1..MaxQuantity, unit \in {"kg", "g"}, total_cost \in Costs :
         purchase(quantity, unit, total_cost)
    \/ \E i \in DOMAIN calls : purchase_find(i)
    \/ \E i \in DOMAIN calls : purchase_update(i)

SpecPurchases == InitPurchases /\ [][NextPurchases]_vars

\* the total task i computes from the record it read: the stored quantity is
\* a whole number of ticks, so the sum rounds as the purchased part does
TotalOf(i) ==
    With(calculate_converted_quantity(units, calls[i].quantity, calls[i].unit,
                                      calls[i].existing_record.record.Unit),
         LAMBDA conv : calls[i].existing_record.record.Quantity + Fmt4(conv.n, conv.d))

\* C17: when two purchases of one ingredient have read the same starting
\* quantity and both report success, each has written its own total and the
\* stored quantity is the total of one of them (the other update is lost).
C17_LostUpdateKeepsOneTotal ==
    \A i, j \in DOMAIN calls :
      (/\ i < j
       /\ calls[i].op = "process_ingredient_purchase"
       /\ calls[i].pc = "done" /\ calls[j].pc = "done"
       /\ calls[i].success /\ calls[j].success
       /\ calls[i].existing_record = calls[j].existing_record)
      => StoredIn(ingredients, calls[i].name).Quantity \in {TotalOf(i), TotalOf(j)}

\* C23: for units that differ after normalisation the resolver returns the
\* first valid direct rate; failing that, 1 / rate of the first reverse record
\* whose rate is a valid non-zero number; failing that, not found, without
\* raising.  No result is composed of two records.
C23_DirectThenInverseElseNotFound ==
    (Resolved /\ Lower(calls[1].from_unit) # Lower(calls[1].to_unit))
    => LET direct == {i \in DOMAIN units :
                        /\ Lower(units[i].From_Unit) = Lower(calls[1].from_unit)
                        /\ Lower(units[i].To_Unit) = Lower(calls[1].to_unit)
                        /\ units[i].Conversion_Rate # NotANumber}
           reverse == {i \in DOMAIN units :
                         StoresRate(i, calls[1].to_unit, calls[1].from_unit)}
           first(S) == CHOOSE i \in S : \A j \in S : i <= j
       IN  /\ ~calls[1].result.raised
           /\ calls[1].result.found = (direct # {} \/ reverse # {})
           /\ direct # {}
              => calls[1].result.rate = Rat(units[first(direct)].Conversion_Rate, 1)
           /\ (direct = {} /\ reverse # {})
              => calls[1].result.rate = Rat(1, units[first(reverse)].Conversion_Rate)

-----------------------------------------------------------------------------
(* The three operations that derive a unit cost by division, called on a    *)
(* ledger holding Flour in kg, over Units sheets with and without a rule    *)
(* whose rate is zero.                                                      *)

ZeroRateSheets == {UnitTable, <<Rule("g", "kg", 0)>>, <<Rule("kg", "g", 0), Rule("Kg", "G", 1000)>>}

InitDivision ==
    /\ ingredients \in {<<Row("ING001", "Flour", "kg", q * Scale, 5 * Scale)>> : q \in 1..2}
    /\ units \in ZeroRateSheets
    /\ price_history = <<>>
    /\ next_ing_id = 2
    /\ calls = <<>>
    /\ last = NothingHandled
    /\ conversation = InManagerMode

\* the sheets as an operation leaves them, and the call with its result
Returned(op, name, quantity, unit, cost, o) ==
    /\ ingredients' = o.rows
    /\ price_history' = o.history
    /\ next_ing_id' = o.counter
    /\ calls' = <<[op |-> op, name |-> name, quantity |-> quantity, unit |-> unit,
                   cost |-> cost, raised |-> o.raised, success |-> o.success,
                   status |-> o.status]>>
    /\ UNCHANGED <<units, last, conversation>>

call_process_ingredient_purchase(name, quantity, unit, cost) ==
    \E o \in {process_ingredient_purchase(ingredients, price_history, next_ing_id, units,
                                          name, quantity, unit, cost)} :
      Returned("process_ingredient_purchase", name, quantity, unit, cost, o)

call_update_ingredient_cost_per_unit(name, quantity, unit, cost) ==
    \E o \in {update_ingredient_cost_per_unit(ingredients, price_history, next_ing_id,
                                              units, name, quantity, unit, cost, TRUE)} :
      Returned("update_ingredient_cost_per_unit", name, quantity, unit, cost, o)

call_atomic_combined_update(name, quantity, unit, cost) ==
    \E o \in {atomic_combined_update(ingredients, price_history, next_ing_id, units,
                                     name, quantity, unit, cost)} :
      Returned("atomic_combined_update", name, quantity, unit, cost, o)

NextDivision ==
    \E name \in Names, quantity \in Quantities, unit \in {"kg", "g"}, cost \in Costs :
      \/ call_process_ingredient_purchase(name, quantity, unit, cost)
      \/ call_update_ingredient_cost_per_unit(name, quantity, unit, cost)
      \/ call_atomic_combined_update(name, quantity, unit, cost)

SpecDivision == InitDivision /\ [][NextDivision]_vars

\* C30: a purchase, price statement or combined set whose divisor is zero
\* (input quantity 0, or a conversion rate that makes the converted quantity
\* 0) returns a failure, raises nothing and leaves sheets and counter as they
\* were.
C30_ZeroDivisorFails ==
    [][(/\ calls' # <<>>
        /\ \/ calls'[1].quantity = 0
           \/ /\ Known(ingredients, calls'[1].name)
              /\ LET conv == Converted(calls'[1], StoredIn(ingredients, calls'[1].name))
                 IN  conv.ok /\ conv.n = 0)
       => /\ ~calls'[1].success
          /\ calls'[1].raised = ""
          /\ UNCHANGED <<ingredients, price_history, next_ing_id>>]_vars

=============================================================================
